---- MODULE Spec2Model ----
(***************************************************************************)
(* Index Array API (index_array.js + example.js): generation of the vertex *)
(* index topology of a grid surface and the per-face visibility filter,    *)
(* driven by the messages of the Max [js] object.                          *)
(*                                                                         *)
(* A mask element and a face's visible flag hold a JavaScript number (0 or *)
(* 1), a boolean (ring's predicate returns one) or undefined (a read past  *)
(* the end of the mask).  The five values are written "0", "1", "true",    *)
(* "false" and "undefined", and the conversions the code relies on         *)
(* (truthiness, 1 - bit) are computed on them.                             *)
(***************************************************************************)
EXTENDS Integers, Sequences, FiniteSets

\* ------------------------------------------------------------------ bounds
\* largest dimension component a dim message carries
MaxDim == 3
\* longest list message
MaxListLen == 4
\* random is enumerated only on surfaces of at most this many faces
MaxRandomFaces == 2
\* largest count argument of ring
MaxCount == 2

\* --------------------------------------------------------------- constants
QUAD == 4
TRI == 3
\* new Surface([20, 20], QUAD)
InitDim == 20

\* ---------------------------------------------------------------- JS values
Num(n) == CASE n = 0 -> "0" [] n = 1 -> "1"
Bool(b) == IF b THEN "true" ELSE "false"
Undefined == "undefined"

\* ToBoolean: if (face.visible())
ToBoolean(v) == v \in {"1", "true"}
\* ToNumber of the operand of 1 - bit (a mask never holds undefined)
ToNumber(v) == CASE v \in {"1", "true"} -> 1 [] v \in {"0", "false"} -> 0
\* a[i] of a JS array (0-based): undefined past the end
At(a, i) == IF i >= 0 /\ i < Len(a) THEN a[i + 1] ELSE Undefined

\* ---------------------------------------------------------------- state
\* g is the Global 'index_array': g.draw, g.surface (a Surface: _dim,
\* _face_array, _draw_mode) and g.filter (a Filter: _mask; its _surface is
\* g.surface).  g.matrix is written by bang alone and read by nothing: its
\* cells are what bang sends from the left outlet.  The globals i and j are
\* assigned by every loop before it reads them, so no handler sees the values
\* an earlier one left.
VARIABLE g

vars == <<g>>

\* new Face(index_array, visible)
Face(index_array, visible) == [_index_array |-> index_array, _visible |-> visible]

\* new Surface(dim, draw_mode)
Surface(d, m) == [_dim |-> d, _face_array |-> <<>>, _draw_mode |-> m]

\* new Filter(surface)
Filter == [_mask |-> <<>>]

face_count(s) == Len(s._face_array)

\* ------------------------------------------------------------ Surface
\* quad_face with the first two vertices pushed in the opposite order
quad_face_swapped(d, i, j) ==
    LET start == i * d[1]
    IN Face(<<start + j, start + j + 1, start + j + d[1], start + j + d[1] + 1>>, Num(1))

\* body of quad_grid's inner loop
quad_face(d, i, j) ==
    LET start == i * d[1]
    IN Face(<<start + j + 1, start + j, start + j + d[1], start + j + d[1] + 1>>, Num(1))

\* for (j = 0; j < dim[0] - 1; j++) { ...; face_array.push(face) }
RECURSIVE quad_sectors(_, _, _)
quad_sectors(d, i, j) ==
    IF j < d[1] - 1 THEN <<quad_face(d, i, j)>> \o quad_sectors(d, i, j + 1)
    ELSE <<>>

\* for (i = 0; i < dim[1] - 1; i++)
RECURSIVE quad_stacks(_, _)
quad_stacks(d, i) ==
    IF i < d[2] - 1 THEN quad_sectors(d, i, 0) \o quad_stacks(d, i + 1)
    ELSE <<>>

quad_grid(d) == quad_stacks(d, 0)

\* body of tri_grid's first inner loop (near to far)
tri_face_near(d, i, j) ==
    LET start == i * d[1] + 1
    IN Face(<<start + j, start + j + d[1] - 1, start + j + d[1]>>, Num(1))

\* tri_face_far with its third vertex taken from the far row
tri_face_far_other_diagonal(d, i, j) ==
    LET start == (i + 1) * d[1]
    IN Face(<<start - j - d[1], start - j, start - j + 1>>, Num(1))

\* body of tri_grid's second inner loop (far to near)
tri_face_far(d, i, j) ==
    LET start == (i + 1) * d[1]
    IN Face(<<start - j - d[1], start - j, start - j - d[1] + 1>>, Num(1))

RECURSIVE tri_sectors_near(_, _, _)
tri_sectors_near(d, i, j) ==
    IF j < d[1] - 1 THEN <<tri_face_near(d, i, j)>> \o tri_sectors_near(d, i, j + 1)
    ELSE <<>>

RECURSIVE tri_stacks_near(_, _)
tri_stacks_near(d, i) ==
    IF i < d[2] - 1 THEN tri_sectors_near(d, i, 0) \o tri_stacks_near(d, i + 1)
    ELSE <<>>

\* for (j = dim[0]; j > 1; j--)
RECURSIVE tri_sectors_far(_, _, _)
tri_sectors_far(d, i, j) ==
    IF j > 1 THEN <<tri_face_far(d, i, j)>> \o tri_sectors_far(d, i, j - 1)
    ELSE <<>>

\* for (i = dim[1] - 1; i > 0; i--)
RECURSIVE tri_stacks_far(_, _)
tri_stacks_far(d, i) ==
    IF i > 0 THEN tri_sectors_far(d, i, d[1]) \o tri_stacks_far(d, i - 1)
    ELSE <<>>

tri_grid(d) == tri_stacks_near(d, 0) \o tri_stacks_far(d, d[2] - 1)

\* Surface.generate
Surface_generate(s) ==
    [s EXCEPT !._face_array = IF s._draw_mode = QUAD THEN quad_grid(s._dim)
                              ELSE tri_grid(s._dim)]

\* zero_array without the test of the draw mode
zero_array_quad_only(m) == <<0, 0, 0, 0>>

\* what index_array puts in a hidden face's place
zero_array(m) == IF m = QUAD THEN <<0, 0, 0, 0>> ELSE <<0, 0, 0>>

\* [].concat.apply([], index_array): the arrays ss[lo..hi] end to end
RECURSIVE flatten(_, _, _)
flatten(ss, lo, hi) ==
    IF lo > hi THEN <<>>
    ELSE IF lo = hi THEN ss[lo]
    ELSE LET mid == (lo + hi) \div 2
         IN flatten(ss, lo, mid) \o flatten(ss, mid + 1, hi)

\* Surface.index_array
index_array(s) ==
    LET fa == s._face_array
    IN flatten([k \in 1..Len(fa) |->
                   IF ToBoolean(fa[k]._visible) THEN fa[k]._index_array
                   ELSE zero_array(s._draw_mode)],
               1, Len(fa))

\* ------------------------------------------------------------- Filter
\* applied_visible without the reset: a hidden face stays hidden
applied_visible_cumulative(old, bit) == IF ToBoolean(old) THEN bit ELSE old

\* what apply leaves in a face's visible flag: set_visible(1), then
\* set_visible(mask[i])
applied_visible(old, bit) == bit

\* Filter.apply on the filter's surface s: the surface afterwards
apply(f, s) ==
    [s EXCEPT !._face_array =
        [k \in 1..Len(s._face_array) |->
            Face(s._face_array[k]._index_array,
                 applied_visible(s._face_array[k]._visible, At(f._mask, k - 1)))]]

\* func(): the predicate handed to Filter.generate, called while the global
\* i (loop counter of generate) is as given and n calls were made before
call(func, i, n) ==
    CASE func.kind = "fill" -> Num(1)
      [] func.kind = "random" -> Num(func.bits[n + 1])
      [] func.kind = "ring" ->
            \* i % count > 0; i % 0 is NaN and NaN > 0 is false
            Bool(func.count # 0 /\ (i % func.count) > 0)
      [] func.kind = "spiral" ->
            Num(IF i < func.dim[1] * (i % func.dim[2]) THEN 0 ELSE 1)

\* The values <<i, j>> of the globals at each call of func() in face order.
\* for (j = 0; j < dim[0] - 1; j++) a.push(func())
RECURSIVE order_sectors_near(_, _, _)
order_sectors_near(d, i, j) ==
    IF j < d[1] - 1 THEN <<<<i, j>>>> \o order_sectors_near(d, i, j + 1)
    ELSE <<>>

\* for (i = 0; i < dim[1] - 1; i++)
RECURSIVE order_stacks_near(_, _)
order_stacks_near(d, i) ==
    IF i < d[2] - 1 THEN order_sectors_near(d, i, 0) \o order_stacks_near(d, i + 1)
    ELSE <<>>

\* for (j = dim[0]; j > 1; j--) a.push(func())
RECURSIVE order_sectors_far(_, _, _)
order_sectors_far(d, i, j) ==
    IF j > 1 THEN <<<<i, j>>>> \o order_sectors_far(d, i, j - 1)
    ELSE <<>>

\* for (i = dim[1] - 1; i > 0; i--)
RECURSIVE order_stacks_far(_, _)
order_stacks_far(d, i) ==
    IF i > 0 THEN order_sectors_far(d, i, d[1]) \o order_stacks_far(d, i - 1)
    ELSE <<>>

\* the calls of the branch if (order) of Filter.generate
face_order(s) ==
    order_stacks_near(s._dim, 0)
        \o (IF s._draw_mode = TRI THEN order_stacks_far(s._dim, s._dim[2] - 1) ELSE <<>>)

\* Filter.generate up to set_mask: the array a it builds
generate_mask(s, func, order) ==
    IF order
    THEN LET calls == face_order(s)
         IN [k \in 1..Len(calls) |-> call(func, calls[k][1], k - 1)]
    ELSE \* for (i = 0; i < face_count(); i++) a.push(func())
         [k \in 1..face_count(s) |-> call(func, k - 1, k - 1)]

\* g.filter.set_mask(a); g.filter.apply()
set_mask_apply(gg, a) ==
    LET f == [gg.filter EXCEPT !._mask = a]
    IN [gg EXCEPT !.filter = f, !.surface = apply(f, gg.surface)]

\* g.filter.generate(func, order)
Filter_generate(gg, func, order) ==
    set_mask_apply(gg, generate_mask(gg.surface, func, order))

\* ------------------------------------------------------------------- API
\* The handlers, as the value of g they leave.  bang also sends: outlet0 is
\* <<the cells of the matrix>> if it sends one from the left outlet and <<>>
\* if not, outlet1 the face count it sends from the right outlet.
bang(gg) ==
    [g |-> [gg EXCEPT !.draw = FALSE],
     outlet0 |-> IF gg.draw = TRUE THEN <<index_array(gg.surface)>> ELSE <<>>,
     outlet1 |-> face_count(gg.surface)]

\* dim testing the number of arguments alone
dim_any_value(gg, a) ==
    IF Len(a) = 2
    THEN [gg EXCEPT !.surface = Surface_generate([gg.surface EXCEPT !._dim = a]),
                    !.draw = TRUE]
    ELSE gg

dim(gg, a) ==
    IF Len(a) = 2 /\ a[1] > 0 /\ a[2] > 0
    THEN [gg EXCEPT !.surface = Surface_generate([gg.surface EXCEPT !._dim = a]),
                    !.draw = TRUE]
    ELSE gg

draw_mode(gg, str) ==
    IF str = "quads" \/ str = "triangles"
    THEN LET m == IF str = "quads" THEN QUAD ELSE TRI
         IN [gg EXCEPT !.surface = Surface_generate([gg.surface EXCEPT !._draw_mode = m]),
                       !.draw = TRUE]
    ELSE gg

list(gg, a) ==
    [set_mask_apply(gg, [k \in 1..Len(a) |-> Num(a[k])]) EXCEPT !.draw = TRUE]

fill(gg) ==
    [Filter_generate(gg, [kind |-> "fill"], FALSE) EXCEPT !.draw = TRUE]

\* bits: what round(pow(random(), 1.0 / density)) returns call after call,
\* 0 or 1 each for a density > 0
random(gg, bits) ==
    [Filter_generate(gg, [kind |-> "random", bits |-> bits], FALSE) EXCEPT !.draw = TRUE]

\* g.filter.mask().map(function(bit, i) { return 1 - bit; })
reverse_mask(mk) == [k \in 1..Len(mk) |-> Num(1 - ToNumber(mk[k]))]

reverse(gg) ==
    [set_mask_apply(gg, reverse_mask(gg.filter._mask)) EXCEPT !.draw = TRUE]

ring(gg, count) ==
    [Filter_generate(gg, [kind |-> "ring", count |-> count], TRUE) EXCEPT !.draw = TRUE]

spiral(gg) ==
    [Filter_generate(gg, [kind |-> "spiral", dim |-> gg.surface._dim], FALSE)
        EXCEPT !.draw = TRUE]

\* ---------------------------------------------------------------- inputs
DimVals == (-1)..MaxDim
\* arrayfromargs(arguments) of a dim message: one, two or three numbers
DimArgs == {<<x>> : x \in DimVals} \cup (DimVals \X DimVals) \cup {<<2, 2, 2>>}
DrawModeArgs == {"quads", "triangles", "lines"}
\* arrayfromargs(arguments) of a list message: elements 0 or 1
ListArgs == UNION {[1..n -> {0, 1}] : n \in 1..MaxListLen}
CountArgs == 0..MaxCount

\* ------------------------------------------------------------------ Init
Init ==
    g = [draw |-> FALSE,
         surface |-> Surface(<<InitDim, InitDim>>, QUAD),
         filter |-> Filter]

\* ------------------------------------------------------- the messages
msg_bang == g' = bang(g).g

msg_dim == \E a \in DimArgs : g' = dim(g, a)

msg_draw_mode == \E str \in DrawModeArgs : g' = draw_mode(g, str)

msg_list == \E a \in ListArgs : g' = list(g, a)

msg_fill == g' = fill(g)

msg_random ==
    /\ face_count(g.surface) <= MaxRandomFaces
    /\ \E bits \in [1..face_count(g.surface) -> {0, 1}] : g' = random(g, bits)

msg_reverse == g' = reverse(g)

msg_ring == \E count \in CountArgs : g' = ring(g, count)

msg_spiral == g' = spiral(g)

Next ==
    \/ msg_bang
    \/ msg_dim
    \/ msg_draw_mode
    \/ msg_list
    \/ msg_fill
    \/ msg_random
    \/ msg_reverse
    \/ msg_ring
    \/ msg_spiral

Spec == Init /\ [][Next]_vars

\* ------------------------------------------------------------ properties
cols == g.surface._dim[1]
rows == g.surface._dim[2]
faces == g.surface._face_array
width == IF g.surface._draw_mode = QUAD THEN 4 ELSE 3
cell_count == (rows - 1) * (cols - 1)
Elements(q) == {q[k] : k \in 1..Len(q)}
Least(S) == CHOOSE x \in S : \A y \in S : x <= y
Visibles(fa) == [k \in 1..Len(fa) |-> fa[k]._visible]
Indices(fa) == [k \in 1..Len(fa) |-> fa[k]._index_array]

\* C1: for cols, rows >= 2 quad_grid yields (rows-1)*(cols-1) visible faces,
\* the face of stack i and sector j at position i*(cols-1)+j with the indices
\* [i*cols+j+1, i*cols+j, i*cols+j+cols, i*cols+j+cols+1]; a surface in QUAD
\* mode that has been generated holds these index tuples; for dim (3,3) the
\* flattened result is [1,0,3,4, 2,1,4,5, 4,3,6,7, 5,4,7,8].
C1_QuadGridTopology ==
    LET f == quad_grid(g.surface._dim)
    IN (cols >= 2 /\ rows >= 2) =>
        /\ Len(f) = (rows - 1) * (cols - 1)
        /\ \A i \in 0..(rows - 2), j \in 0..(cols - 2) :
              f[i * (cols - 1) + j + 1] =
                  [_index_array |-> <<i * cols + j + 1, i * cols + j,
                                      i * cols + j + cols, i * cols + j + cols + 1>>,
                   _visible |-> "1"]
        /\ (g.surface._draw_mode = QUAD /\ faces # <<>>) => Indices(faces) = Indices(f)
        /\ g.surface._dim = <<3, 3>> =>
              flatten(Indices(f), 1, Len(f)) = <<1,0,3,4, 2,1,4,5, 4,3,6,7, 5,4,7,8>>

C1_Witness ==
    /\ g.surface._dim = <<3, 3>>
    /\ g.surface._draw_mode = QUAD
    /\ faces = quad_grid(<<3, 3>>)
    /\ index_array(g.surface) = <<1,0,3,4, 2,1,4,5, 4,3,6,7, 5,4,7,8>>

\* the four corners of the cell of stack s and sector c
Corners(s, c) ==
    {s * cols + c, s * cols + c + 1, (s + 1) * cols + c, (s + 1) * cols + c + 1}
\* the two corners on the diagonal both triangles of a cell share
Diagonal(s, c) == {s * cols + c + 1, (s + 1) * cols + c}
Cells == (0..(rows - 2)) \X (0..(cols - 2))
\* The cells all of whose corners include the vertices V.  Three distinct
\* vertices inside one cell have their least one in the cell's near row, so
\* only the two cells that have it as a near corner can contain them.
CellsOf(V) ==
    LET m == Least(V)
    IN {cell \in {<<m \div cols, m % cols>>, <<m \div cols, (m % cols) - 1>>} \cap Cells :
            V \subseteq Corners(cell[1], cell[2])}

\* C2: for cols, rows >= 2 tri_grid yields 2*(rows-1)*(cols-1) triangles;
\* every triangle lies in exactly one cell; the first half holds exactly one
\* triangle per cell and so does the second half; the two triangles of a cell
\* both contain the cell's diagonal (s*cols+c+1, (s+1)*cols+c) and differ, so
\* together they use all four corners; for dim (3,3) there are 8 faces and
\* the first is [1,3,4].
C2_TriGridTiling ==
    LET f == tri_grid(g.surface._dim)
        V(k) == Elements(f[k]._index_array)
        CellOf(k) == CHOOSE cell \in CellsOf(V(k)) : TRUE
        n == cell_count
        pass1 == {<<CellOf(k), V(k)>> : k \in 1..n}
        pass2 == {<<CellOf(k), V(k)>> : k \in (n + 1)..(2 * n)}
    IN (cols >= 2 /\ rows >= 2) =>
        /\ Len(f) = 2 * n
        /\ \A k \in 1..Len(f) :
              /\ Len(f[k]._index_array) = 3
              /\ Cardinality(V(k)) = 3
              /\ Cardinality(CellsOf(V(k))) = 1
              /\ Diagonal(CellOf(k)[1], CellOf(k)[2]) \subseteq V(k)
              /\ f[k]._visible = "1"
        /\ {p[1] : p \in pass1} = Cells
        /\ {p[1] : p \in pass2} = Cells
        /\ pass1 \cap pass2 = {}
        /\ (g.surface._draw_mode = TRI /\ faces # <<>>) => Indices(faces) = Indices(f)
        /\ g.surface._dim = <<3, 3>> => Len(f) = 8 /\ f[1]._index_array = <<1, 3, 4>>

C2_Witness ==
    /\ g.surface._dim = <<3, 3>>
    /\ g.surface._draw_mode = TRI
    /\ Len(faces) = 8
    /\ faces[1]._index_array = <<1, 3, 4>>
    /\ faces[8]._index_array = <<1, 4, 2>>

\* C3: the index array has face_count * width entries (width 4 in QUAD mode,
\* 3 in TRI mode); its k-th block is faces[k]'s index tuple if the face is
\* visible and width zeros if it is hidden; the matrix bang sends when the
\* draw flag is up is that array; dim (3,3) quad with faces 0 and 2 hidden gives
\* [0,0,0,0, 2,1,4,5, 0,0,0,0, 5,4,7,8].
C3_IndexArrayLayout ==
    LET ia == index_array(g.surface)
    IN /\ Len(ia) = face_count(g.surface) * width
       /\ \A k \in 1..Len(faces) :
             SubSeq(ia, (k - 1) * width + 1, k * width) =
                 IF faces[k]._visible \in {"1", "true"} THEN faces[k]._index_array
                 ELSE [x \in 1..width |-> 0]
       /\ g.draw = TRUE =>
             /\ bang(g).outlet0 = <<ia>>
             /\ Len(bang(g).outlet0[1]) = bang(g).outlet1 * width
       /\ (/\ g.surface._dim = <<3, 3>>
           /\ g.surface._draw_mode = QUAD
           /\ Visibles(faces) = <<"0", "1", "0", "1">>)
             => ia = <<0,0,0,0, 2,1,4,5, 0,0,0,0, 5,4,7,8>>

C3_Witness ==
    /\ g.surface._dim = <<3, 3>>
    /\ g.surface._draw_mode = QUAD
    /\ g.filter._mask = <<"0", "1", "0", "1">>
    /\ g.draw = TRUE
    /\ bang(g).outlet0 = << <<0,0,0,0, 2,1,4,5, 0,0,0,0, 5,4,7,8>> >>

\* C4: in every reachable state the ordered branch of Filter.generate calls
\* func exactly face_count times (so ring's mask has length face_count), and
\* its k-th call sees the loop values (i, j) under which the surface
\* generator created faces[k].
C4_OrderedCallsMatchFaces ==
    LET calls == face_order(g.surface)
        created(k) ==
            IF g.surface._draw_mode = QUAD
            THEN quad_face(g.surface._dim, calls[k][1], calls[k][2])
            ELSE IF k <= cell_count
                 THEN tri_face_near(g.surface._dim, calls[k][1], calls[k][2])
                 ELSE tri_face_far(g.surface._dim, calls[k][1], calls[k][2])
    IN /\ Len(calls) = face_count(g.surface)
       /\ Len(ring(g, 1).filter._mask) = face_count(g.surface)
       /\ \A k \in 1..Len(faces) :
             k <= Len(calls) /\ faces[k]._index_array = created(k)._index_array

\* C5: apply overwrites: the state's faces are as generated or as the mask
\* says; applying the mask, or its reverse, from here gives every face k the
\* visibility mask[k] whatever it was, changes no index tuple and not the
\* face count; applying the same mask again gives the same index array.
C5_ApplyOverwrites ==
    LET s0 == g.surface
        ok(f) ==
            LET s1 == apply(f, s0)
            IN /\ Len(s1._face_array) = Len(faces)
               /\ \A k \in 1..Len(faces) :
                     /\ s1._face_array[k]._visible = At(f._mask, k - 1)
                     /\ s1._face_array[k]._index_array = faces[k]._index_array
               /\ s1._dim = s0._dim /\ s1._draw_mode = s0._draw_mode
               /\ index_array(apply(f, s1)) = index_array(s1)
    IN /\ \/ \A k \in 1..Len(faces) : faces[k]._visible = At(g.filter._mask, k - 1)
          \/ \A k \in 1..Len(faces) : faces[k]._visible = "1"
       /\ ok(g.filter)
       /\ ok([_mask |-> reverse_mask(g.filter._mask)])

\* a hidden face, and a mask that shows it, is what apply is given
C5_Witness ==
    /\ Len(faces) = 4
    /\ Visibles(faces) = <<"0", "1", "undefined", "undefined">>
    /\ g.filter._mask = <<"0", "1">>
    /\ Visibles(reverse(g).surface._face_array) = <<"1", "0", "undefined", "undefined">>

\* C6: apply takes no effect with a mask whose length differs from the face
\* count: such a list, or a reverse of a stale mask, leaves every face's
\* visibility unchanged, and no face holds a visibility read past the end of
\* the mask.
C6_MismatchRefused ==
    /\ \A a \in ListArgs :
          Len(a) # face_count(g.surface) =>
              Visibles(list(g, a).surface._face_array) = Visibles(faces)
    /\ Len(g.filter._mask) # face_count(g.surface) =>
          Visibles(reverse(g).surface._face_array) = Visibles(faces)
    /\ \A k \in 1..Len(faces) : faces[k]._visible # "undefined"

C8_FacesConsistent ==
    LET expected == IF g.surface._draw_mode = QUAD THEN cell_count ELSE 2 * cell_count
    IN /\ face_count(g.surface) = expected
       /\ \A k \in 1..Len(faces) : Len(faces[k]._index_array) = width
       /\ bang(g).outlet1 = expected

\* C9: reverse complements every mask element, and two reverses in a row
\* restore the mask (as numbers) and the surface's index array.
C9_ReverseInvolution ==
    LET mk == g.filter._mask
        g1 == reverse(g)
        g2 == reverse(g1)
    IN /\ Len(g1.filter._mask) = Len(mk)
       /\ \A k \in 1..Len(mk) : ToNumber(g1.filter._mask[k]) = 1 - ToNumber(mk[k])
       /\ Len(g2.filter._mask) = Len(mk)
       /\ \A k \in 1..Len(mk) : ToNumber(g2.filter._mask[k]) = ToNumber(mk[k])
       /\ index_array(g2.surface) = index_array(g.surface)

\* C10: after ring(count), count >= 1, a face is hidden exactly when the
\* stack it lies in is a multiple of count, in QUAD and in TRI mode.
C10_RingHidesStackBands ==
    \A count \in 1..MaxCount :
        LET fa == ring(g, count).surface._face_array
        IN \A k \in 1..Len(fa) :
              LET stack == Least(Elements(fa[k]._index_array)) \div cols
              IN (fa[k]._visible \notin {"1", "true"}) <=> (stack % count = 0)

====
